---- MODULE Spec2Model ----
(***************************************************************************)
(* A model of submit_tech_score.py: one run of the command line tool that  *)
(* builds a score submission from flags or from a JSON file, validates the *)
(* presence of ten keys and issues one HTTP POST.                          *)
(*                                                                         *)
(* Python values are records [t, s, n]: t is the type tag ("none", "str",  *)
(* "num"), s the text of a string and n a number in tenths (85.5 is 855).  *)
(* Strings that the program takes apart (the base URL, a score token       *)
(* handed to float) are sequences of one-character strings.                *)
(***************************************************************************)
EXTENDS Integers, Sequences, FiniteSets, TLC

VARIABLES pc, argv, fs, args, api_url, data, checked, out, exit_code, posted, outcome

vars == <<pc, argv, fs, args, api_url, data, checked, out, exit_code, posted, outcome>>

(***************************************************************************)
(* Python values                                                           *)
(***************************************************************************)
None == [t |-> "none", s |-> "", n |-> 0]

Str(x) == [t |-> "str", s |-> x, n |-> 0]

Float(x) == [t |-> "num", s |-> "", n |-> x]

\* bool(v) of a Python value: None, "" and 0.0 are falsy.
Truthy(v) == CASE v.t = "none" -> FALSE
               [] v.t = "str" -> v.s # ""
               [] OTHER -> v.n # 0

IsNotNone(v) == v.t # "none"

(***************************************************************************)
(* Bounds of the model                                                     *)
(***************************************************************************)
\* longest base URL drawn, in characters
MaxUrlLen == 3

\* a base URL is any string over these characters up to MaxUrlLen
UrlChars == {"h", "/"}

RECURSIVE SeqsUpTo(_, _)
SeqsUpTo(S, k) == IF k = 0 THEN {<<>>}
                  ELSE LET shorter == SeqsUpTo(S, k - 1)
                       IN  shorter \cup {Append(q, c) : q \in {r \in shorter : Len(r) = k - 1}, c \in S}

Urls == SeqsUpTo(UrlChars, MaxUrlLen)

\* the base URL of the runs that vary the fields rather than the URL
HostUrl == <<"h">>

(***************************************************************************)
(* The field table of build_request_data and the keys of validate_data     *)
(***************************************************************************)
TextDests == {"tech_doc_name", "tech_doc_link", "submitter", "business_line", "global_level"}

ScoreDests == {"product_score", "backend_score", "frontend_score", "test_score", "global_score"}

Dests == TextDests \cup ScoreDests

\* the output key build_request_data assigns for each argparse destination
KeyOf(d) == CASE d = "tech_doc_name" -> "techDocName"
              [] d = "tech_doc_link" -> "techDocLink"
              [] d = "submitter" -> "submitter"
              [] d = "business_line" -> "businessLine"
              [] d = "product_score" -> "productScore"
              [] d = "backend_score" -> "backendScore"
              [] d = "frontend_score" -> "frontendScore"
              [] d = "test_score" -> "testScore"
              [] d = "global_score" -> "globalScore"
              [] OTHER -> "globalLevel"

required_fields == <<"techDocName", "techDocLink", "submitter", "businessLine",
                     "productScore", "backendScore", "frontendScore", "testScore",
                     "globalScore", "globalLevel">>

RequiredKeys == {required_fields[i] : i \in 1..Len(required_fields)}

(***************************************************************************)
(* float(token) as argparse applies it to a score flag                     *)
(***************************************************************************)
Digits == {"0", "1", "2", "3", "4", "5", "6", "7", "8", "9"}

DigitVal(c) == CASE c = "0" -> 0 [] c = "1" -> 1 [] c = "2" -> 2 [] c = "3" -> 3
                 [] c = "4" -> 4 [] c = "5" -> 5 [] c = "6" -> 6 [] c = "7" -> 7
                 [] c = "8" -> 8 [] OTHER -> 9

DotAt(tok) == {i \in 1..Len(tok) : tok[i] = "."}

\* the decimal literals float accepts among the tokens drawn: digits with at
\* most one point and at most one digit after it
IsFloatLiteral(tok) ==
    /\ \A i \in 1..Len(tok) : tok[i] \in Digits \cup {"."}
    /\ \E i \in 1..Len(tok) : tok[i] \in Digits
    /\ Cardinality(DotAt(tok)) <= 1
    /\ \A i \in DotAt(tok) : Len(tok) - i <= 1

RECURSIVE IntOf(_)
IntOf(ds) == IF ds = <<>> THEN 0
             ELSE 10 * IntOf(SubSeq(ds, 1, Len(ds) - 1)) + DigitVal(ds[Len(ds)])

\* the value of a literal, in tenths
ParseFloat(tok) ==
    IF DotAt(tok) = {} THEN 10 * IntOf(tok)
    ELSE LET i == CHOOSE j \in DotAt(tok) : TRUE
         IN  10 * IntOf(SubSeq(tok, 1, i - 1)) + IntOf(SubSeq(tok, i + 1, Len(tok)))

(***************************************************************************)
(* The command line and the file system of a run                           *)
(*                                                                         *)
(* An option of the command line is <<>> when it is absent and <<v>> when  *)
(* it is given with the value v.                                           *)
(***************************************************************************)
TextOpts == {<<>>, <<"">>, <<"X">>}

TokZero == <<"0">>

TokScore == <<"8", "5", ".", "5">>

TokBad == <<"x">>

ScoreOpts == {<<>>, <<TokZero>>, <<TokScore>>}

Flags(tf, sf) == [d \in Dests |-> IF d \in TextDests THEN tf[d] ELSE sf[d]]

\* every combination of absent, empty/zero and ordinary values of the ten flags
AllFlags == {Flags(tf, sf) : tf \in [TextDests -> TextOpts], sf \in [ScoreDests -> ScoreOpts]}

\* the same option for all text flags and the same for all score flags
UniformFlags(t, s) == [d \in Dests |-> IF d \in TextDests THEN t ELSE s]

FewFlags == {UniformFlags(<<>>, <<>>), UniformFlags(<<"X">>, <<TokScore>>),
             UniformFlags(<<"">>, <<TokZero>>)}

FilePath == "data.json"

\* keys a JSON file may hold besides the ten canonical ones
ExtraKeys == {"tech_doc_name"}

IsScoreKey(k) == k \in {KeyOf(d) : d \in ScoreDests}

\* the value a file binds to key k: well typed, null everywhere, or of the
\* wrong type and out of any range
FileValue(scheme, k) ==
    CASE scheme = "typed" -> IF IsScoreKey(k) THEN Float(900) ELSE Str("A")
      [] scheme = "null" -> None
      [] OTHER -> IF IsScoreKey(k) THEN Str("high") ELSE Float(0 - 9990)

FileObjects == {[k \in K |-> FileValue(scheme, k)] :
                   K \in SUBSET (RequiredKeys \cup ExtraKeys),
                   scheme \in {"typed", "null", "odd"}}

Missing == [kind |-> "missing", obj |-> <<>>]

\* text that is not JSON
Malformed == [kind |-> "malformed", obj |-> <<>>]

\* bytes that are not UTF-8 text
Undecodable == [kind |-> "undecodable", obj |-> <<>>]

FileStates == {Missing, Malformed, Undecodable} \cup {[kind |-> "object", obj |-> o] : o \in FileObjects}

Argv(url, from_file, flags) == [url |-> url, from_file |-> from_file, flags |-> flags]

\* command-line mode, every combination of the ten flags
FieldRuns == {<<Argv(<<HostUrl>>, <<>>, f), Missing>> : f \in AllFlags}

\* --from-file given, with a path or with the empty string
FileRuns == {<<Argv(<<HostUrl>>, <<FilePath>>, f), st>> : f \in FewFlags, st \in FileStates}
            \cup {<<Argv(<<HostUrl>>, <<"">>, f), Missing>> : f \in FewFlags}

\* every base URL, --url absent, and a score token float rejects
UrlRuns == {<<Argv(u, <<>>, [UniformFlags(<<"X">>, <<TokScore>>) EXCEPT !["product_score"] = <<tok>>]), Missing>> :
               u \in {<<>>} \cup {<<x>> : x \in Urls}, tok \in {TokScore, TokBad}}

Runs == FieldRuns \cup FileRuns \cup UrlRuns

(***************************************************************************)
(* Output                                                                  *)
(***************************************************************************)
Line(kind) == [kind |-> kind, field |-> "", code |-> 0]

FieldLine(f) == [kind |-> "missing_field", field |-> f, code |-> 0]

CodeLine(kind, code) == [kind |-> kind, field |-> "", code |-> code]

Printed(kind) == \E i \in 1..Len(out) : out[i].kind = kind

(***************************************************************************)
(* parse_arguments and main's endpoint                                     *)
(***************************************************************************)
OptText(o) == IF o = <<>> THEN None ELSE Str(o[1])

OptScore(o) == IF o = <<>> THEN None ELSE Float(ParseFloat(o[1]))

\* argparse rejects the command line: --url is required, type=float must accept
UsageError(av) ==
    \/ av.url = <<>>
    \/ \E d \in ScoreDests : av.flags[d] # <<>> /\ ~IsFloatLiteral(av.flags[d][1])

Namespace(av) ==
    [url |-> av.url[1],
     from_file |-> OptText(av.from_file),
     f |-> [d \in Dests |-> IF d \in TextDests THEN OptText(av.flags[d]) ELSE OptScore(av.flags[d])]]

\* a faulty variant that removes one trailing slash only
RStripOne(s) == IF s # <<>> /\ s[Len(s)] = "/" THEN SubSeq(s, 1, Len(s) - 1) ELSE s

RECURSIVE RStrip(_)
RStrip(s) == IF s # <<>> /\ s[Len(s)] = "/" THEN RStrip(SubSeq(s, 1, Len(s) - 1)) ELSE s

PathSuffix == <<"/", "fullstack", "/", "api", "/", "tech_plan", "/", "score", "/", "submit">>

ApiUrl(url) == RStrip(url) \o PathSuffix

(***************************************************************************)
(* load_from_json_file and build_request_data                              *)
(***************************************************************************)
\* a faulty variant that reads every failure as an empty object
OpenSwallow(path, st) == IF path = "" \/ st.kind # "object" THEN [kind |-> "object", obj |-> <<>>] ELSE st

\* open() finds no file at the empty path, whatever the file system holds
Open(path, st) == IF path = "" THEN Missing ELSE st

TextGiven(v) == Truthy(v)

\* a faulty variant that tests a score the way the text flags are tested
ScoreGivenTruthy(v) == Truthy(v)

ScoreGiven(v) == IsNotNone(v)

Given(f, d) == IF d \in TextDests THEN TextGiven(f[d]) ELSE ScoreGiven(f[d])

DestOf(k) == CHOOSE d \in Dests : KeyOf(d) = k

CliData(f) == [k \in {KeyOf(d) : d \in {e \in Dests : Given(f, e)}} |-> f[DestOf(k)]]

\* a faulty variant that lets the flags override the file's keys
FileDataMerged(obj, f) ==
    [k \in DOMAIN obj \cup DOMAIN CliData(f) |-> IF k \in DOMAIN CliData(f) THEN CliData(f)[k] ELSE obj[k]]

FileData(obj, f) == obj

UseFile(a) == Truthy(a.from_file)

(***************************************************************************)
(* validate_data                                                           *)
(***************************************************************************)
HasKey(d, k) == k \in DOMAIN d

\* a faulty variant that takes a key bound to null for a missing one
AbsentOrNull(d, k) == ~(HasKey(d, k) /\ IsNotNone(d[k]))

\* field not in data
Absent(d, k) == ~HasKey(d, k)

RECURSIVE CollectMissing(_, _, _)
CollectMissing(d, i, acc) ==
    IF i > Len(required_fields) THEN acc
    ELSE CollectMissing(d, i + 1,
                        IF Absent(d, required_fields[i]) THEN Append(acc, required_fields[i]) ELSE acc)

\* a faulty variant that stops at the first missing field
FirstMissing(d) == LET all == CollectMissing(d, 1, <<>>) IN IF all = <<>> THEN all ELSE <<all[1]>>

\* a faulty variant that leaves the last required field unchecked
SkipLastMissing(d) == SelectSeq(CollectMissing(d, 1, <<>>), LAMBDA k : k # required_fields[Len(required_fields)])

MissingFields(d) == CollectMissing(d, 1, <<>>)

MissingReport(m) == <<Line("missing_header")>> \o [i \in 1..Len(m) |-> FieldLine(m[i])] \o <<Line("missing_hint")>>

(***************************************************************************)
(* send_request                                                            *)
(***************************************************************************)
HTTP_OK == 200

Statuses == {HTTP_OK, 404, 500}

\* what requests.post raises when no response arrives
PostErrors == {"ConnectionError", "ConnectTimeout", "ReadTimeout", "TooManyRedirects"}

\* what response.json() raises on a body that is not JSON: requests' own
\* JSONDecodeError (requests >= 2.27), the standard library's, or simplejson's
\* (older requests without and with simplejson installed)
JsonErrors == {"requests.JSONDecodeError", "json.JSONDecodeError", "simplejson.JSONDecodeError"}

\* the classes an exception is an instance of
Bases(exc) ==
    CASE exc = "ConnectionError" -> {"ConnectionError", "RequestException"}
      [] exc = "ConnectTimeout" -> {"ConnectTimeout", "ConnectionError", "Timeout", "RequestException"}
      [] exc = "ReadTimeout" -> {"ReadTimeout", "Timeout", "RequestException"}
      [] exc = "TooManyRedirects" -> {"TooManyRedirects", "RequestException"}
      [] exc = "requests.JSONDecodeError" -> {"InvalidJSONError", "RequestException", "JSONDecodeError", "ValueError"}
      [] exc = "json.JSONDecodeError" -> {"JSONDecodeError", "ValueError"}
      [] OTHER -> {"ValueError"}

ExceptClauses == <<"ConnectionError", "Timeout", "RequestException", "JSONDecodeError">>

\* the first except clause the exception matches, "uncaught" when none does
HandlerFor(exc) ==
    LET hit == {i \in 1..Len(ExceptClauses) : ExceptClauses[i] \in Bases(exc)}
    IN  IF hit = {} THEN "uncaught"
        ELSE ExceptClauses[CHOOSE i \in hit : \A j \in hit : i <= j]

HandlerLines(h) ==
    CASE h = "ConnectionError" -> <<Line("cannot_connect"), Line("check_list"), Line("cause_address"),
                                    Line("cause_server"), Line("cause_network")>>
      [] h = "Timeout" -> <<Line("timeout")>>
      [] h = "RequestException" -> <<Line("request_exception")>>
      [] h = "JSONDecodeError" -> <<Line("not_json"), Line("raw_response")>>
      [] OTHER -> <<Line("traceback")>>

NoOutcome == [kind |-> "none", exc |-> "", status |-> 0, json |-> FALSE]

Outcomes ==
    {[kind |-> "raise", exc |-> e, status |-> 0, json |-> FALSE] : e \in PostErrors}
    \cup {[kind |-> "response", exc |-> "", status |-> st, json |-> TRUE] : st \in Statuses}
    \cup {[kind |-> "response", exc |-> e, status |-> st, json |-> FALSE] : e \in JsonErrors, st \in Statuses}

\* the exception that leaves the try block, "" when it completes
Raised(o) == IF o.kind = "raise" \/ ~o.json THEN o.exc ELSE ""

\* a faulty variant with the comparison inverted
VerdictFlipped(status) == IF status # HTTP_OK THEN <<Line("success")>> ELSE <<CodeLine("failed", status)>>

Verdict(status) == IF status = HTTP_OK THEN <<Line("success")>> ELSE <<CodeLine("failed", status)>>

\* what the try block prints before it completes or raises
TryLines(o) ==
    <<Line("sending"), Line("request_data")>>
    \o (IF o.kind = "response" THEN <<CodeLine("status", o.status)>> ELSE <<>>)
    \o (IF o.kind = "response" /\ o.json THEN <<Line("body")>> \o Verdict(o.status) ELSE <<>>)

(***************************************************************************)
(* The run: main                                                           *)
(***************************************************************************)
NoArgs == [url |-> <<>>, from_file |-> None, f |-> [d \in Dests |-> None]]

Init ==
    /\ \E r \in Runs : argv = r[1] /\ fs = r[2]
    /\ pc = "start"
    /\ args = NoArgs
    /\ api_url = <<>>
    /\ data = <<>>
    /\ checked = "no"
    /\ out = <<>>
    /\ exit_code = 0 - 1
    /\ posted = <<>>
    /\ outcome = NoOutcome

Exit(code, lines) ==
    /\ pc' = "done"
    /\ exit_code' = code
    /\ out' = out \o lines

\* args = parse_arguments(); api_url = ...
ParseArguments ==
    /\ pc = "start"
    /\ IF UsageError(argv)
       THEN /\ Exit(2, <<Line("usage_error")>>)
            /\ UNCHANGED <<args, api_url>>
       ELSE /\ args' = Namespace(argv)
            /\ api_url' = ApiUrl(argv.url[1])
            /\ pc' = "parsed"
            /\ UNCHANGED <<out, exit_code>>
    /\ UNCHANGED <<argv, fs, data, checked, posted, outcome>>

\* data = build_request_data(args), command-line branch
BuildFromFlags ==
    /\ pc = "parsed"
    /\ ~UseFile(args)
    /\ data' = CliData(args.f)
    /\ pc' = "built"
    /\ UNCHANGED <<argv, fs, args, api_url, checked, out, exit_code, posted, outcome>>

\* data = build_request_data(args), file branch with load_from_json_file
BuildFromFile ==
    /\ pc = "parsed"
    /\ UseFile(args)
    /\ LET got == Open(args.from_file.s, fs)
       IN  CASE got.kind = "missing" -> Exit(1, <<Line("file_not_found")>>) /\ UNCHANGED data
             [] got.kind = "malformed" -> Exit(1, <<Line("json_invalid")>>) /\ UNCHANGED data
             [] got.kind = "undecodable" -> Exit(1, <<Line("traceback")>>) /\ UNCHANGED data
             [] OTHER -> /\ data' = FileData(got.obj, args.f)
                         /\ pc' = "built"
                         /\ UNCHANGED <<out, exit_code>>
    /\ UNCHANGED <<argv, fs, args, api_url, checked, posted, outcome>>

\* if not validate_data(data): sys.exit(1)
ValidateData ==
    /\ pc = "built"
    /\ LET m == MissingFields(data)
       IN  IF m # <<>>
           THEN /\ checked' = "fail"
                /\ Exit(1, MissingReport(m))
           ELSE /\ checked' = "ok"
                /\ pc' = "validated"
                /\ UNCHANGED <<out, exit_code>>
    /\ UNCHANGED <<argv, fs, args, api_url, data, posted, outcome>>

\* send_request(api_url, data), then main returns
SendRequest ==
    /\ pc = "validated"
    /\ \E o \in Outcomes :
          /\ outcome' = o
          /\ posted' = Append(posted, [url |-> api_url, body |-> data])
          /\ IF Raised(o) = ""
             THEN Exit(0, TryLines(o))
             ELSE Exit(1, TryLines(o) \o HandlerLines(HandlerFor(Raised(o))))
    /\ UNCHANGED <<argv, fs, args, api_url, data, checked>>

Next ==
    \/ ParseArguments
    \/ BuildFromFlags
    \/ BuildFromFile
    \/ ValidateData
    \/ SendRequest

Spec == Init /\ [][Next]_vars

(***************************************************************************)
(* Properties                                                              *)
(***************************************************************************)
\* build_request_data has returned a mapping
Built == pc \in {"built", "validated"} \/ checked # "no"

Complete(d) == RequiredKeys \subseteq DOMAIN d

Times(line) == Cardinality({i \in 1..Len(out) : out[i] = line})

FromFileGiven == argv.from_file # <<>>

FromFileNamed == argv.from_file # <<>> /\ argv.from_file # <<"">>

\* C1: the POST is issued only with a mapping that holds all ten required keys;
\* a mapping lacking one is never posted and its run ends with exit code 1.
C1_PostOnlyWhenComplete ==
    /\ \A i \in 1..Len(posted) : Complete(posted[i].body) /\ posted[i].body = data
    /\ (Built /\ ~Complete(data)) => (posted = <<>> /\ pc \in {"built", "done"})
    /\ (Built /\ ~Complete(data) /\ pc = "done") => exit_code = 1

C1_Witness ==
    /\ pc = "done"
    /\ checked = "fail"
    /\ DOMAIN data = RequiredKeys \ {"globalLevel"}
    /\ exit_code = 1
    /\ posted = <<>>

\* C2: when validation fails, the field names printed are exactly the required
\* keys absent from the mapping, each printed once, in either mode.
C2_AllMissingReportedOnce ==
    checked = "fail" =>
        /\ \A k \in RequiredKeys \ DOMAIN data : Times(FieldLine(k)) = 1
        /\ \A i \in 1..Len(out) : out[i].kind = "missing_field" => out[i].field \in RequiredKeys \ DOMAIN data
        /\ Times(Line("missing_header")) = 1

C2_Witness ==
    /\ checked = "fail"
    /\ UseFile(args)
    /\ RequiredKeys \ DOMAIN data = {"submitter", "testScore", "globalLevel"}
    /\ Times(FieldLine("submitter")) = 1
    /\ Times(FieldLine("testScore")) = 1
    /\ Times(FieldLine("globalLevel")) = 1

\* C3: a response with a status other than 200 and a JSON body prints the
\* status code, the body and the failure message with the status code, and the
\* run ends with exit code 0 without an unhandled exception.
C3_RejectionExitsZero ==
    (outcome.kind = "response" /\ outcome.json /\ outcome.status # HTTP_OK) =>
        /\ pc = "done"
        /\ exit_code = 0
        /\ Times(CodeLine("status", outcome.status)) = 1
        /\ Times(Line("body")) = 1
        /\ Times(CodeLine("failed", outcome.status)) = 1
        /\ ~Printed("success")
        /\ ~Printed("traceback")

C3_Witness ==
    /\ outcome.kind = "response"
    /\ outcome.json
    /\ outcome.status = 500
    /\ exit_code = 0
    /\ out[Len(out)] = CodeLine("failed", 500)

\* C4: a response whose body is not JSON, whatever its status, prints the
\* response-format diagnostic with the raw response text and ends the run with
\* exit code 1, handled by the JSONDecodeError clause and not the generic one.
C4_NonJsonHandled ==
    (outcome.kind = "response" /\ ~outcome.json) =>
        /\ exit_code = 1
        /\ Printed("not_json")
        /\ Printed("raw_response")
        /\ ~Printed("request_exception")

\* C5: every transport failure ends the run with exit code 1 and the diagnostic
\* of its class: a connection failure the cannot-connect diagnostic with three
\* causes, a connect or read timeout the timeout diagnostic, any other request
\* exception the generic diagnostic.
C5_TransportDiagnostics ==
    outcome.kind = "raise" =>
        /\ exit_code = 1
        /\ outcome.exc = "ConnectionError" =>
              /\ Printed("cannot_connect") /\ Printed("cause_address")
              /\ Printed("cause_server") /\ Printed("cause_network")
              /\ ~Printed("timeout") /\ ~Printed("request_exception")
        /\ outcome.exc \in {"ConnectTimeout", "ReadTimeout"} =>
              /\ Printed("timeout")
              /\ ~Printed("cannot_connect") /\ ~Printed("request_exception")
        /\ outcome.exc = "TooManyRedirects" =>
              /\ Printed("request_exception")
              /\ ~Printed("cannot_connect") /\ ~Printed("timeout")

\* what a failed load of the named file prints
LoadDiagnostic(st) == CASE st.kind = "missing" -> "file_not_found"
                        [] st.kind = "malformed" -> "json_invalid"
                        [] OTHER -> "traceback"

LoadFails(st) ==
    /\ pc \notin {"start", "parsed"}
    /\ pc = "done"
    /\ exit_code = 1
    /\ out = <<Line(LoadDiagnostic(st))>>
    /\ checked = "no"
    /\ posted = <<>>

\* C6 as stated: whenever --from-file is given and names no existing file or a
\* file that is not JSON, the run ends at the load with exit code 1 and the
\* matching diagnostic, without validation and without a network call.
C6_AsStated ==
    (FromFileGiven /\ Open(argv.from_file[1], fs).kind \in {"missing", "malformed"} /\ pc \notin {"start", "parsed"})
        => LoadFails(Open(argv.from_file[1], fs))

\* C6 amended: the same for every non-empty --from-file value; a file that is
\* text but not JSON prints the JSON diagnostic, one that is not UTF-8 text ends
\* with the unhandled decoding error, also exit code 1.
C6_NamedFileLoadFails ==
    (FromFileNamed /\ fs.kind \in {"missing", "malformed", "undecodable"} /\ pc \notin {"start", "parsed"})
        => LoadFails(fs)

C6_Witness ==
    /\ argv.from_file = <<FilePath>>
    /\ fs.kind = "malformed"
    /\ argv.flags = UniformFlags(<<"X">>, <<TokScore>>)
    /\ pc = "done"
    /\ exit_code = 1
    /\ out = <<Line("json_invalid")>>

\* the number a score token denotes, in tenths
TokenTenths(tok) == IF tok = TokZero THEN 0 ELSE 855

SuppliedValue(d) == IF d \in TextDests THEN Str(argv.flags[d][1])
                    ELSE Float(TokenTenths(argv.flags[d][1]))

MappingOf(dests) ==
    /\ DOMAIN data = {KeyOf(d) : d \in dests}
    /\ \A d \in dests : data[KeyOf(d)] = SuppliedValue(d)

\* C7 as stated: without --from-file the mapping holds exactly the renamed key
\* of every supplied flag, an empty string and 0 included, bound to its value.
C7_AsStated ==
    (argv.from_file = <<>> /\ Built) => MappingOf({d \in Dests : argv.flags[d] # <<>>})

\* C7 amended: without --from-file the mapping holds exactly the renamed key of
\* every supplied score flag (0 included) and of every text flag supplied with
\* a non-empty value, bound to its value; a text flag given as the empty string
\* is left out like an absent one.
C7_NonEmptyFlagsMapped ==
    (argv.from_file = <<>> /\ Built) =>
        MappingOf({d \in Dests : argv.flags[d] # <<>> /\ (d \in TextDests => argv.flags[d] # <<"">>)})

C7_Witness ==
    /\ argv.from_file = <<>>
    /\ pc = "built"
    /\ argv.flags["product_score"] = <<TokZero>>
    /\ argv.flags["test_score"] = <<TokScore>>
    /\ argv.flags["submitter"] = <<"">>
    /\ argv.flags["global_level"] = <<"X">>
    /\ argv.flags["tech_doc_name"] = <<>>
    /\ data["productScore"] = Float(0)
    /\ data["testScore"] = Float(855)
    /\ data["globalLevel"] = Str("X")
    /\ "submitter" \notin DOMAIN data

FileVerbatim ==
    /\ fs.kind = "object"
    /\ data = fs.obj
    /\ \A i \in 1..Len(posted) : posted[i].body = fs.obj

\* C8 as stated: whenever --from-file is given, the mapping and the body posted
\* are the file's object unmodified and the field flags are ignored.
C8_AsStated == (FromFileGiven /\ Built) => FileVerbatim

\* C8 amended: whenever --from-file is given with a non-empty value, the
\* mapping and the body posted are the file's object unmodified and the field
\* flags are ignored; an empty value leaves the run in command-line mode.
C8_NamedFileVerbatim == (FromFileNamed /\ Built) => FileVerbatim

C8_Witness ==
    /\ argv.from_file = <<FilePath>>
    /\ argv.flags = UniformFlags(<<"X">>, <<TokScore>>)
    /\ pc = "done"
    /\ Len(posted) = 1
    /\ posted[1].body = fs.obj
    /\ DOMAIN fs.obj = RequiredKeys \cup ExtraKeys
    /\ fs.obj["submitter"] = Str("A")

Parsed == pc # "start" /\ exit_code # 2

C10_PresenceOnly ==
    /\ checked = "ok" => Complete(data)
    /\ checked = "fail" => ~Complete(data)
    /\ (pc = "validated" \/ posted # <<>>) => checked = "ok"
    /\ checked = "no" => pc \in {"start", "parsed", "built", "done"}

C10_Witness ==
    /\ checked = "ok"
    /\ DOMAIN data = RequiredKeys \cup ExtraKeys
    /\ data["techDocName"] = None
    /\ data["globalScore"] = None

====
